---- MODULE Spec2Model ----
(***************************************************************************)
(* BME280 driver over SPI (src/src/spi.rs).                                 *)
(*                                                                         *)
(* spi.rs holds the public driver type (blocking BME280 and AsyncBME280,   *)
(* both generated from one template), the hand written blocking and        *)
(* suspension-capable register interfaces, and the shared                  *)
(* read_any_register.  The protocol engine the driver delegates to         *)
(* (BME280Common / AsyncBME280Common, Configuration, Measurements and the  *)
(* register map) lives in the crate root (super::*, spi.rs:15-26); those   *)
(* parts follow the design specification and are marked "crate root".      *)
(*                                                                         *)
(* The bus is observed as a log of SpiDevice transactions, each a list of  *)
(* embedded-hal Operations, together with the invocations of the delay     *)
(* primitive.                                                              *)
(***************************************************************************)
EXTENDS Integers, Sequences, FiniteSets, TLC

VARIABLES
    features,     \* cargo features of the build: "sync", "async", "fixed"
    device,       \* the sensor on the bus: chip id and calibration content
    call,         \* the call being (or last) executed and its configuration
    drv,          \* per driver (blocking, suspension-capable): its state
    arg           \* inputs of a direct register interface call

vars == <<features, device, call, drv, arg>>

(***************************************************************************)
(* Bounds                                                                  *)
(***************************************************************************)
MaxReading == 1        \* compensated readings range over 0..MaxReading
MaxSpiError == 2       \* distinct errors the SpiDevice may report

(***************************************************************************)
(* Bytes and bit operations                                                *)
(***************************************************************************)
Byte == 0..255

RECURSIVE BitAnd(_, _)
BitAnd(a, b) ==
    IF a = 0 \/ b = 0 THEN 0
    ELSE (a % 2) * (b % 2) + 2 * BitAnd(a \div 2, b \div 2)

RECURSIVE BitOr(_, _)
BitOr(a, b) ==
    IF a = 0 THEN b
    ELSE IF b = 0 THEN a
    ELSE (IF a % 2 = 1 \/ b % 2 = 1 THEN 1 ELSE 0) + 2 * BitOr(a \div 2, b \div 2)

Shl8(a, n) == (a * (2 ^ n)) % 256

Bit7(a) == (a \div 128) % 2

Fill(n, b) == [i \in 1..n |-> b]

(***************************************************************************)
(* Register map and protocol constants (crate root)                        *)
(***************************************************************************)
BME280_CHIP_ID_ADDR == 208              \* 0xD0
BME280_CHIP_ID == 96                    \* 0x60
BME280_P_T_CALIB_DATA_ADDR == 136       \* 0x88
BME280_H_CALIB_DATA_ADDR == 225         \* 0xE1
BME280_CTRL_HUM_ADDR == 242             \* 0xF2
BME280_PWR_CTRL_ADDR == 244             \* 0xF4
BME280_CONFIG_ADDR == 245               \* 0xF5
BME280_DATA_ADDR == 247                 \* 0xF7
BME280_P_T_CALIB_DATA_LEN == 26
BME280_H_CALIB_DATA_LEN == 7
BME280_P_T_H_DATA_LEN == 8
BME280_SENSOR_MODE_MSK == 3
BME280_FORCED_MODE == 1
BME280_SLEEP_MODE == 0

(***************************************************************************)
(* Errors and results                                                      *)
(***************************************************************************)
SpiErrors == 1..MaxSpiError

NoError == [kind |-> "none", spi |-> 0]
\* spi.rs:291-294  SPIError::SPI(e), wrapped in Error::Bus at each call site
ErrorBus(e) == [kind |-> "Bus", spi |-> e]
ErrorUnsupportedChip == [kind |-> "UnsupportedChip", spi |-> 0]
ErrorUninitialized == [kind |-> "Uninitialized", spi |-> 0]

Ok(v) == [tag |-> "Ok", val |-> v, err |-> NoError]
Err(e) == [tag |-> "Err", val |-> <<>>, err |-> e]
Pending == [tag |-> "Pending", val |-> <<>>, err |-> NoError]
NoResult == [tag |-> "None", val |-> <<>>, err |-> NoError]

(***************************************************************************)
(* Configuration (crate root): builder with with_* setters                 *)
(***************************************************************************)
Oversamplings ==
    {"Skipped", "Oversampling1X", "Oversampling2X", "Oversampling4X",
     "Oversampling8X", "Oversampling16X"}

IIRFilters ==
    {"Off", "Coefficient2", "Coefficient4", "Coefficient8", "Coefficient16"}

OversamplingBits(o) ==
    CASE o = "Skipped" -> 0
      [] o = "Oversampling1X" -> 1
      [] o = "Oversampling2X" -> 2
      [] o = "Oversampling4X" -> 3
      [] o = "Oversampling8X" -> 4
      [] o = "Oversampling16X" -> 5

IIRFilterBits(f) ==
    CASE f = "Off" -> 0
      [] f = "Coefficient2" -> 1
      [] f = "Coefficient4" -> 2
      [] f = "Coefficient8" -> 3
      [] f = "Coefficient16" -> 4

\* Configuration::default(): the documented recommended preset
ConfigurationDefault ==
    [humidity_oversampling |-> "Oversampling1X",
     pressure_oversampling |-> "Oversampling16X",
     temperature_oversampling |-> "Oversampling2X",
     iir_filter |-> "Coefficient16"]

with_humidity_oversampling(c, o) == [c EXCEPT !.humidity_oversampling = o]
with_pressure_oversampling(c, o) == [c EXCEPT !.pressure_oversampling = o]
with_temperature_oversampling(c, o) == [c EXCEPT !.temperature_oversampling = o]
with_iir_filter(c, f) == [c EXCEPT !.iir_filter = f]

\* the register images of a configuration
CtrlHumBits(c) == BitAnd(OversamplingBits(c.humidity_oversampling), 7)
CtrlMeasBits(c) ==
    BitOr(BitOr(Shl8(OversamplingBits(c.temperature_oversampling), 5),
                Shl8(OversamplingBits(c.pressure_oversampling), 2)),
          BME280_SLEEP_MODE)
ConfigBits(c) == Shl8(IIRFilterBits(c.iir_filter), 2)

\* configurations handed to init_with_config: every value of every field,
\* one field at a time away from the preset
Configurations ==
    {with_humidity_oversampling(ConfigurationDefault, o) : o \in Oversamplings}
    \cup {with_pressure_oversampling(ConfigurationDefault, o) : o \in Oversamplings}
    \cup {with_temperature_oversampling(ConfigurationDefault, o) : o \in Oversamplings}
    \cup {with_iir_filter(ConfigurationDefault, f) : f \in IIRFilters}

NoConfiguration ==
    [humidity_oversampling |-> "Skipped", pressure_oversampling |-> "Skipped",
     temperature_oversampling |-> "Skipped", iir_filter |-> "Off"]

(***************************************************************************)
(* SpiDevice (embedded-hal): operations, transactions and what the device  *)
(* answers                                                                 *)
(***************************************************************************)
\* Operation::Write(bytes), Operation::Read(buffer of len),
\* Operation::Transfer(read buffer of len, bytes)
OpWrite(bytes) == [op |-> "Write", bytes |-> bytes, len |-> 0]
OpRead(len) == [op |-> "Read", bytes |-> <<>>, len |-> len]
OpTransfer(len, bytes) == [op |-> "Transfer", bytes |-> bytes, len |-> len]

\* one SpiDevice call: one chip-select framed transaction
Transaction(kind, register, ops, o) ==
    [kind |-> kind, register |-> register, ops |-> ops,
     err |-> o.err, data |-> o.data]

\* SpiDevice::transaction(operations)
SpiTransaction(kind, register, ops, o) == Transaction(kind, register, ops, o)
\* SpiDevice::write(buf) is transaction([Write(buf)])
SpiWrite(kind, register, buf, o) == Transaction(kind, register, <<OpWrite(buf)>>, o)
\* SpiDevice::transfer(read, write) is transaction([Transfer(read, write)])
SpiTransfer(kind, register, readLen, buf, o) ==
    Transaction(kind, register, <<OpTransfer(readLen, buf)>>, o)

DelayEvent == [kind |-> "delay", register |-> 0, ops |-> <<>>, err |-> 0, data |-> <<>>]

\* outcome of one transaction: err = 0 is success, data are the bytes read
Success(data) == [err |-> 0, data |-> data]
Failure(e) == [err |-> e, data |-> <<>>]
Failures == {Failure(e) : e \in SpiErrors}

(***************************************************************************)
(* Register access functions for SPI (spi.rs)                              *)
(* Each returns the transactions it put on the bus and its return value.   *)
(***************************************************************************)
read_any_register_masked(register, len, o) ==
    [txns |-> <<SpiTransaction("read", register,
                               <<OpWrite(<<BitAnd(register, 127)>>), OpRead(len)>>, o)>>,
     ret |-> IF o.err = 0 THEN Ok(o.data) ELSE Err(ErrorBus(o.err))]

read_any_register_retry(register, len, o) ==
    LET t == SpiTransaction("read", register, <<OpWrite(<<register>>), OpRead(len)>>, o)
    IN  [txns |-> IF o.err = 0 THEN <<t>> ELSE <<t, t>>,
         ret |-> IF o.err = 0 THEN Ok(o.data) ELSE Err(ErrorBus(o.err))]

\* spi.rs:276-286
read_any_register(register, len, o) ==
    [txns |-> <<SpiTransaction("read", register,
                               <<OpWrite(<<register>>), OpRead(len)>>, o)>>,
     ret |-> IF o.err = 0 THEN Ok(o.data) ELSE Err(ErrorBus(o.err))]

\* spi.rs:147-151
SPIInterface_read_register(register, o) ==
    LET r == read_any_register(register, 1, o)
    IN  IF r.ret.tag = "Err" THEN r ELSE [r EXCEPT !.ret = Ok(<<r.ret.val[1]>>)]

\* spi.rs:153-160
SPIInterface_read_data(register, o) == read_any_register(register, BME280_P_T_H_DATA_LEN, o)

\* spi.rs:162-169
SPIInterface_read_pt_calib_data(register, o) ==
    read_any_register(register, BME280_P_T_CALIB_DATA_LEN, o)

\* spi.rs:171-178
SPIInterface_read_h_calib_data(register, o) ==
    read_any_register(register, BME280_H_CALIB_DATA_LEN, o)

SPIInterface_write_register_unmasked(register, payload, o) ==
    [txns |-> <<SpiWrite("write", register, <<register, payload>>, o)>>,
     ret |-> IF o.err = 0 THEN Ok(<<>>) ELSE Err(ErrorBus(o.err))]

\* spi.rs:180-187
SPIInterface_write_register(register, payload, o) ==
    [txns |-> <<SpiWrite("write", register, <<BitAnd(register, 127), payload>>, o)>>,
     ret |-> IF o.err = 0 THEN Ok(<<>>) ELSE Err(ErrorBus(o.err))]

\* spi.rs:202-208
AsyncSPIInterface_read_register(register, o) ==
    LET r == read_any_register(register, 1, o)
    IN  IF r.ret.tag = "Err" THEN r ELSE [r EXCEPT !.ret = Ok(<<r.ret.val[1]>>)]

\* spi.rs:214-220
AsyncSPIInterface_read_data(register, o) == read_any_register(register, BME280_P_T_H_DATA_LEN, o)

\* spi.rs:226-232
AsyncSPIInterface_read_pt_calib_data(register, o) ==
    read_any_register(register, BME280_P_T_CALIB_DATA_LEN, o)

\* spi.rs:238-244
AsyncSPIInterface_read_h_calib_data(register, o) ==
    read_any_register(register, BME280_H_CALIB_DATA_LEN, o)

AsyncSPIInterface_write_register_readback(register, payload, o) ==
    [txns |-> <<SpiTransfer("write", register, 2, <<BitAnd(register, 127), payload>>, o)>>,
     ret |-> IF o.err = 0 THEN Ok(<<>>) ELSE Err(ErrorBus(o.err))]

AsyncSPIInterface_write_register_swapped(register, payload, o) ==
    [txns |-> <<SpiTransfer("write", register, 0, <<payload, BitAnd(register, 127)>>, o)>>,
     ret |-> IF o.err = 0 THEN Ok(<<>>) ELSE Err(ErrorBus(o.err))]

\* spi.rs:250-260
AsyncSPIInterface_write_register(register, payload, o) ==
    [txns |-> <<SpiTransfer("write", register, 0, <<BitAnd(register, 127), payload>>, o)>>,
     ret |-> IF o.err = 0 THEN Ok(<<>>) ELSE Err(ErrorBus(o.err))]

\* the interface a driver is built over: SPIInterface for the blocking
\* BME280, AsyncSPIInterface for AsyncBME280 (spi.rs:41-43, 134-137)
Transports == {"sync", "async"}

read_register(v, register, o) ==
    IF v = "sync" THEN SPIInterface_read_register(register, o) ELSE AsyncSPIInterface_read_register(register, o)
read_data(v, register, o) ==
    IF v = "sync" THEN SPIInterface_read_data(register, o) ELSE AsyncSPIInterface_read_data(register, o)
read_pt_calib_data(v, register, o) ==
    IF v = "sync" THEN SPIInterface_read_pt_calib_data(register, o)
    ELSE AsyncSPIInterface_read_pt_calib_data(register, o)
read_h_calib_data(v, register, o) ==
    IF v = "sync" THEN SPIInterface_read_h_calib_data(register, o)
    ELSE AsyncSPIInterface_read_h_calib_data(register, o)
write_register(v, register, payload, o) ==
    IF v = "sync" THEN SPIInterface_write_register(register, payload, o)
    ELSE AsyncSPIInterface_write_register(register, payload, o)

(***************************************************************************)
(* The sensor (environment)                                                *)
(***************************************************************************)
ChipIds == {BME280_CHIP_ID, 0, 255}
CalibFills == {0, 165}
Devices == {[chip_id |-> c, pt |-> f, h |-> 255 - f] : c \in ChipIds, f \in CalibFills}

\* what a read of the control register may return
ReadBacks == {84, 255}

\* raw data block: pressure 3 bytes, temperature 3 bytes, humidity 2 bytes
SkippedBlock20 == <<255, 255, 240>>
SkippedBlock16 == <<128, 0>>
DataBlocks ==
    {p \o t \o h : p \in {SkippedBlock20, <<101, 90, 192>>},
                   t \in {SkippedBlock20, <<126, 237, 0>>},
                   h \in {SkippedBlock16, <<110, 30>>}}

(***************************************************************************)
(* Calibration, RawMeasurement, Measurements (crate root)                  *)
(***************************************************************************)
Le16(lo, hi) == lo + 256 * hi

\* fixed-layout decode of the two calibration blocks
ParseCalibration(pt, h) ==
    [dig_t1 |-> Le16(pt[1], pt[2]),
     dig_h1 |-> pt[BME280_P_T_CALIB_DATA_LEN],
     dig_h2 |-> Le16(h[1], h[2])]

\* 20-bit pressure, 20-bit temperature, 16-bit humidity
ParseRaw(data) ==
    [pressure |-> data[1] * 4096 + data[2] * 16 + (data[3] \div 16),
     temperature |-> data[4] * 4096 + data[5] * 16 + (data[6] \div 16),
     humidity |-> data[7] * 256 + data[8]]

NoRaw == [pressure |-> 0, temperature |-> 0, humidity |-> 0]

\* "channel disabled" sentinels of a RawMeasurement
Skipped20 == 1048575     \* all ones in 20 bits
Skipped16 == 32768       \* humidity skip value

Readings == 0..MaxReading
Present == {<<r>> : r \in Readings}
Absent == <<>>

MeasurementsAbsentOnSkip(raw) ==
    [temperature : IF raw.temperature = Skipped20 THEN {Absent} ELSE Present,
     pressure : IF raw.pressure = Skipped20 THEN {Absent} ELSE Present,
     humidity : IF raw.humidity = Skipped16 THEN {Absent} ELSE Present]

\* Measurements / MeasurementsFixed / MeasurementsFixedRaw compensated from a
\* raw triple: three numeric fields, each printed with "{}" by the caller
\* (examples/basic.rs:16-19), whatever the raw triple carries
Measurements(raw) ==
    [temperature : Present, pressure : Present, humidity : Present]

(***************************************************************************)
(* The driver (spi.rs:41-43, 65-72)                                        *)
(***************************************************************************)
new_calibrated(trace) ==
    [trace |-> trace, calibration |-> <<ParseCalibration(Fill(26, 0), Fill(7, 0))>>]

\* spi.rs:65-72: interface over the given spi handle, calibration: None.
\* trace is what has gone over the handle (and the delay) in the current call.
new(trace) == [trace |-> trace, calibration |-> <<>>]

\* a driver together with the position of its running call
Driver(common) ==
    [trace |-> common.trace, calibration |-> common.calibration,
     pc |-> "idle", result |-> NoResult,
     ptData |-> <<>>, ctrl |-> 0, raw |-> NoRaw,
     ifaceCalls |-> 0, initOk |-> FALSE, calibRead |-> FALSE]

Return(d, res) == [d EXCEPT !.pc = "idle", !.result = res]
\* one call of a register access function: its transactions go on the trace
Issue(d, r) == [d EXCEPT !.trace = @ \o r.txns, !.ifaceCalls = @ + 1]

(***************************************************************************)
(* Common::init (crate root)                                               *)
(***************************************************************************)
CommonInitSkipsCheck(d) ==
    [d EXCEPT !.pc = "read_pt_calib", !.trace = <<>>, !.result = Pending,
              !.raw = NoRaw, !.ifaceCalls = 0]

CommonInit(d) ==
    [d EXCEPT !.pc = "verify_chip_id", !.trace = <<>>, !.result = Pending,
              !.raw = NoRaw, !.ifaceCalls = 0]

StepVerifyChipId(v, d, o) ==
    LET r == read_register(v, BME280_CHIP_ID_ADDR, o)
        d1 == Issue(d, r)
    IN  IF r.ret.tag = "Err" THEN Return(d1, r.ret)
        ELSE IF r.ret.val[1] # BME280_CHIP_ID THEN Return(d1, Err(ErrorUnsupportedChip))
        ELSE [d1 EXCEPT !.pc = "read_pt_calib"]

StepReadPtCalib(v, d, o) ==
    LET r == read_pt_calib_data(v, BME280_P_T_CALIB_DATA_ADDR, o)
        d1 == Issue(d, r)
    IN  IF r.ret.tag = "Err" THEN Return(d1, r.ret)
        ELSE [d1 EXCEPT !.pc = "read_h_calib", !.ptData = r.ret.val]

\* the parsed calibration is stored as soon as both blocks are read; a later
\* failure of init does not undo it
StepReadHCalib(v, d, o) ==
    LET r == read_h_calib_data(v, BME280_H_CALIB_DATA_ADDR, o)
        d1 == Issue(d, r)
    IN  IF r.ret.tag = "Err" THEN Return(d1, r.ret)
        ELSE [d1 EXCEPT !.pc = "write_ctrl_hum", !.ptData = <<>>,
                        !.calibration = <<ParseCalibration(d.ptData, r.ret.val)>>,
                        !.calibRead = TRUE]

StepWriteCtrlHum(v, d, c, o) ==
    LET r == write_register(v, BME280_CTRL_HUM_ADDR, CtrlHumBits(c), o)
        d1 == Issue(d, r)
    IN  IF r.ret.tag = "Err" THEN Return(d1, r.ret)
        ELSE [d1 EXCEPT !.pc = "write_ctrl_meas"]

StepWriteCtrlMeas(v, d, c, o) ==
    LET r == write_register(v, BME280_PWR_CTRL_ADDR, CtrlMeasBits(c), o)
        d1 == Issue(d, r)
    IN  IF r.ret.tag = "Err" THEN Return(d1, r.ret)
        ELSE [d1 EXCEPT !.pc = "write_config"]

StepWriteConfig(v, d, c, o) ==
    LET r == write_register(v, BME280_CONFIG_ADDR, ConfigBits(c), o)
        d1 == Issue(d, r)
    IN  IF r.ret.tag = "Err" THEN Return(d1, r.ret)
        ELSE [Return(d1, Ok(<<>>)) EXCEPT !.initOk = TRUE]

(***************************************************************************)
(* Common::measure, measure_fixed, measure_fixed_raw (crate root)          *)
(***************************************************************************)
CommonMeasure(d) ==
    IF d.calibration = <<>>
    THEN [Return(d, Err(ErrorUninitialized)) EXCEPT !.trace = <<>>, !.raw = NoRaw,
                                                    !.ifaceCalls = 0]
    ELSE [d EXCEPT !.pc = "forced_read", !.trace = <<>>, !.result = Pending,
                   !.raw = NoRaw, !.ifaceCalls = 0]

\* forced mode keeps the oversampling bits of the control register
StepForcedRead(v, d, o) ==
    LET r == read_register(v, BME280_PWR_CTRL_ADDR, o)
        d1 == Issue(d, r)
    IN  IF r.ret.tag = "Err" THEN Return(d1, r.ret)
        ELSE [d1 EXCEPT !.pc = "forced_write", !.ctrl = r.ret.val[1]]

ForcedBits(ctrl) ==
    BitOr(BitAnd(ctrl, 255 - BME280_SENSOR_MODE_MSK), BME280_FORCED_MODE)

StepForcedWrite(v, d, o) ==
    LET r == write_register(v, BME280_PWR_CTRL_ADDR, ForcedBits(d.ctrl), o)
        d1 == Issue(d, r)
    IN  IF r.ret.tag = "Err" THEN Return(d1, r.ret)
        ELSE [d1 EXCEPT !.pc = "delay", !.ctrl = 0]

StepDelay(d) == [d EXCEPT !.pc = "read_data", !.trace = Append(@, DelayEvent)]

StepReadData(v, d, o, m) ==
    LET r == read_data(v, BME280_DATA_ADDR, o)
        d1 == Issue(d, r)
    IN  IF r.ret.tag = "Err" THEN Return(d1, r.ret)
        ELSE [Return(d1, Ok(<<m>>)) EXCEPT !.raw = ParseRaw(r.ret.val)]

(***************************************************************************)
(* State machine                                                           *)
(***************************************************************************)
\* builds: at least one of the "sync" and "async" features, "fixed" optional
FeatureSets ==
    {f \in SUBSET {"sync", "async", "fixed"} : f \cap Transports # {}}

Active == features \cap Transports
AllIdle == \A v \in Active : drv[v].pc = "idle"
At(step) == {v \in Active : drv[v].pc = step}

NoCall == [name |-> "none", config |-> NoConfiguration]
NoArg == [register |-> 0, payload |-> 0]

Init ==
    /\ features \in FeatureSets
    /\ device \in Devices
    /\ call = NoCall
    /\ drv = [v \in Transports |-> Driver(new(<<>>))]
    /\ arg = NoArg

init_configuration_swapped ==
    with_iir_filter(
        with_temperature_oversampling(
            with_pressure_oversampling(
                with_humidity_oversampling(ConfigurationDefault, "Oversampling1X"),
                "Oversampling2X"),
            "Oversampling16X"),
        "Coefficient16")

\* spi.rs:84-88
init_configuration ==
    with_iir_filter(
        with_temperature_oversampling(
            with_pressure_oversampling(
                with_humidity_oversampling(ConfigurationDefault, "Oversampling1X"),
                "Oversampling16X"),
            "Oversampling2X"),
        "Coefficient16")

\* spi.rs:77-91
init ==
    /\ AllIdle
    /\ call' = [name |-> "init", config |-> init_configuration]
    /\ drv' = [v \in Transports |->
                 IF v \in Active THEN CommonInit(drv[v]) ELSE drv[v]]
    /\ UNCHANGED <<features, device, arg>>

init_with_config_unchecked ==
    /\ AllIdle
    /\ \E config \in Configurations :
         call' = [name |-> "init_with_config", config |-> config]
    /\ drv' = [v \in Transports |->
                 IF v \in Active THEN CommonInitSkipsCheck(drv[v]) ELSE drv[v]]
    /\ UNCHANGED <<features, device, arg>>

\* spi.rs:94-100
init_with_config ==
    /\ AllIdle
    /\ \E config \in Configurations :
         call' = [name |-> "init_with_config", config |-> config]
    /\ drv' = [v \in Transports |->
                 IF v \in Active THEN CommonInit(drv[v]) ELSE drv[v]]
    /\ UNCHANGED <<features, device, arg>>

\* spi.rs:103-108
measure ==
    /\ AllIdle
    /\ call' = [name |-> "measure", config |-> NoConfiguration]
    /\ drv' = [v \in Transports |->
                 IF v \in Active THEN CommonMeasure(drv[v]) ELSE drv[v]]
    /\ UNCHANGED <<features, device, arg>>

\* spi.rs:111-117
measure_fixed ==
    /\ "fixed" \in features
    /\ AllIdle
    /\ call' = [name |-> "measure_fixed", config |-> NoConfiguration]
    /\ drv' = [v \in Transports |->
                 IF v \in Active THEN CommonMeasure(drv[v]) ELSE drv[v]]
    /\ UNCHANGED <<features, device, arg>>

\* spi.rs:120-125
measure_fixed_raw ==
    /\ AllIdle
    /\ call' = [name |-> "measure_fixed_raw", config |-> NoConfiguration]
    /\ drv' = [v \in Transports |->
                 IF v \in Active THEN CommonMeasure(drv[v]) ELSE drv[v]]
    /\ UNCHANGED <<features, device, arg>>

\* the steps of the running call; the device answers every driver alike
VerifyChipId ==
    /\ At("verify_chip_id") # {}
    /\ \E o \in {Success(<<device.chip_id>>)} \cup Failures :
         drv' = [v \in Transports |->
                   IF v \in At("verify_chip_id")
                   THEN StepVerifyChipId(v, drv[v], o) ELSE drv[v]]
    /\ UNCHANGED <<features, device, call, arg>>

ReadPtCalib ==
    /\ At("read_pt_calib") # {}
    /\ \E o \in {Success(Fill(BME280_P_T_CALIB_DATA_LEN, device.pt))} \cup Failures :
         drv' = [v \in Transports |->
                   IF v \in At("read_pt_calib")
                   THEN StepReadPtCalib(v, drv[v], o) ELSE drv[v]]
    /\ UNCHANGED <<features, device, call, arg>>

ReadHCalib ==
    /\ At("read_h_calib") # {}
    /\ \E o \in {Success(Fill(BME280_H_CALIB_DATA_LEN, device.h))} \cup Failures :
         drv' = [v \in Transports |->
                   IF v \in At("read_h_calib")
                   THEN StepReadHCalib(v, drv[v], o) ELSE drv[v]]
    /\ UNCHANGED <<features, device, call, arg>>

WriteCtrlHum ==
    /\ At("write_ctrl_hum") # {}
    /\ \E o \in {Success(<<>>)} \cup Failures :
         drv' = [v \in Transports |->
                   IF v \in At("write_ctrl_hum")
                   THEN StepWriteCtrlHum(v, drv[v], call.config, o) ELSE drv[v]]
    /\ UNCHANGED <<features, device, call, arg>>

WriteCtrlMeas ==
    /\ At("write_ctrl_meas") # {}
    /\ \E o \in {Success(<<>>)} \cup Failures :
         drv' = [v \in Transports |->
                   IF v \in At("write_ctrl_meas")
                   THEN StepWriteCtrlMeas(v, drv[v], call.config, o) ELSE drv[v]]
    /\ UNCHANGED <<features, device, call, arg>>

WriteConfig ==
    /\ At("write_config") # {}
    /\ \E o \in {Success(<<>>)} \cup Failures :
         drv' = [v \in Transports |->
                   IF v \in At("write_config")
                   THEN StepWriteConfig(v, drv[v], call.config, o) ELSE drv[v]]
    /\ UNCHANGED <<features, device, call, arg>>

ForcedRead ==
    /\ At("forced_read") # {}
    /\ \E o \in {Success(<<b>>) : b \in ReadBacks} \cup Failures :
         drv' = [v \in Transports |->
                   IF v \in At("forced_read")
                   THEN StepForcedRead(v, drv[v], o) ELSE drv[v]]
    /\ UNCHANGED <<features, device, call, arg>>

ForcedWrite ==
    /\ At("forced_write") # {}
    /\ \E o \in {Success(<<>>)} \cup Failures :
         drv' = [v \in Transports |->
                   IF v \in At("forced_write")
                   THEN StepForcedWrite(v, drv[v], o) ELSE drv[v]]
    /\ UNCHANGED <<features, device, call, arg>>

Delay ==
    /\ At("delay") # {}
    /\ drv' = [v \in Transports |->
                 IF v \in At("delay") THEN StepDelay(drv[v]) ELSE drv[v]]
    /\ UNCHANGED <<features, device, call, arg>>

ReadDataBlock ==
    /\ At("read_data") # {}
    /\ \/ \E data \in DataBlocks : \E m \in Measurements(ParseRaw(data)) :
            drv' = [v \in Transports |->
                      IF v \in At("read_data")
                      THEN StepReadData(v, drv[v], Success(data), m) ELSE drv[v]]
       \/ \E o \in Failures :
            drv' = [v \in Transports |->
                      IF v \in At("read_data")
                      THEN StepReadData(v, drv[v], o, <<>>) ELSE drv[v]]
    /\ UNCHANGED <<features, device, call, arg>>

Next ==
    \/ init
    \/ init_with_config
    \/ measure
    \/ measure_fixed
    \/ measure_fixed_raw
    \/ VerifyChipId
    \/ ReadPtCalib
    \/ ReadHCalib
    \/ WriteCtrlHum
    \/ WriteCtrlMeas
    \/ WriteConfig
    \/ ForcedRead
    \/ ForcedWrite
    \/ Delay
    \/ ReadDataBlock

Spec == Init /\ [][Next]_vars

(***************************************************************************)
(* Direct calls of the register interface, for every register and payload  *)
(***************************************************************************)
InitInterface ==
    /\ features = Transports
    /\ device = [chip_id |-> BME280_CHIP_ID, pt |-> 0, h |-> 255]
    /\ call = NoCall
    /\ drv = [v \in Transports |-> [Driver(new(<<>>)) EXCEPT !.pc = "interface"]]
    /\ arg \in [register : Byte, payload : Byte]

CallWriteRegister ==
    /\ At("interface") # {}
    /\ \E o \in {Success(<<>>)} \cup Failures :
         drv' = [v \in Transports |->
                   IF v \in At("interface")
                   THEN LET r == write_register(v, arg.register, arg.payload, o)
                        IN  [Issue(drv[v], r) EXCEPT !.pc = "returned", !.result = r.ret]
                   ELSE drv[v]]
    /\ UNCHANGED <<features, device, call, arg>>

NextInterface == CallWriteRegister

SpecInterface == InitInterface /\ [][NextInterface]_vars

(***************************************************************************)
(* Properties                                                              *)
(***************************************************************************)
IsInitCall == call.name \in {"init", "init_with_config"}
IsMeasureCall == call.name \in {"measure", "measure_fixed", "measure_fixed_raw"}
Returned(v) == call.name # "none" /\ drv[v].pc = "idle"
Succeeded(v) == Returned(v) /\ drv[v].result.tag = "Ok"

IsTransaction(e) == e.kind \in {"read", "write"}
\* the first byte clocked out in a transaction: the address byte
AddrByte(e) == e.ops[1].bytes[1]
Positions(t, kind, addr) ==
    {i \in DOMAIN t : t[i].kind = kind /\ AddrByte(t[i]) = addr}
Failed(t) == {i \in DOMAIN t : IsTransaction(t[i]) /\ t[i].err # 0}

C2_UnsupportedChipBeforeCalibration ==
    \A v \in Active :
        (IsInitCall /\ device.chip_id # BME280_CHIP_ID)
            => /\ \A i \in DOMAIN drv[v].trace :
                    /\ drv[v].trace[i].kind = "read"
                    /\ AddrByte(drv[v].trace[i]) = BME280_CHIP_ID_ADDR
               /\ (Returned(v) /\ Failed(drv[v].trace) = {})
                    => /\ drv[v].result = Err(ErrorUnsupportedChip)
                       /\ Len(drv[v].trace) = 1
                       /\ drv[v].trace[1].data # <<BME280_CHIP_ID>>

C2_Witness ==
    \E v \in Active :
        /\ IsInitCall /\ Returned(v)
        /\ device.chip_id # BME280_CHIP_ID
        /\ drv[v].result = Err(ErrorUnsupportedChip)
        /\ Len(drv[v].trace) = 1

\* C3: write_register(R, payload) puts exactly two bytes on the bus, in one
\* transaction: R with bit 7 cleared and its low seven bits kept, then the
\* payload unchanged, for every 8-bit R and payload.
C3_WriteRegisterBytes ==
    \A v \in Active :
        drv[v].pc = "returned"
            => /\ Len(drv[v].trace) = 1
               /\ Len(drv[v].trace[1].ops) = 1
               /\ LET bytes == drv[v].trace[1].ops[1].bytes
                  IN  /\ Len(bytes) = 2
                      /\ bytes[1] < 128
                      /\ bytes[1] = (IF arg.register >= 128 THEN arg.register - 128
                                     ELSE arg.register)
                      /\ bytes[2] = arg.payload

C3_Witness ==
    \E v \in Active :
        /\ drv[v].pc = "returned"
        /\ arg.register >= 128 /\ arg.payload >= 128
        /\ drv[v].trace[1].ops[1].bytes = <<arg.register - 128, arg.payload>>

\* the length the driver asks for when it reads a register
RequestedLen(register) ==
    CASE register = BME280_CHIP_ID_ADDR -> 1
      [] register = BME280_PWR_CTRL_ADDR -> 1
      [] register = BME280_P_T_CALIB_DATA_ADDR -> 26
      [] register = BME280_H_CALIB_DATA_ADDR -> 7
      [] register = BME280_DATA_ADDR -> 8
      [] OTHER -> 0

\* C4: every read the driver issues is one transaction made of a one-byte
\* write of the register address, unmodified and with bit 7 equal to 1,
\* followed by a read of the requested length; every write the driver issues
\* sends an address byte with bit 7 equal to 0.
C4_AddressBit7 ==
    \A v \in Active : \A i \in DOMAIN drv[v].trace :
        LET e == drv[v].trace[i]
        IN  /\ e.kind = "read"
                => /\ Len(e.ops) = 2
                   /\ e.ops[1].op = "Write"
                   /\ e.ops[1].bytes = <<e.register>>
                   /\ Bit7(AddrByte(e)) = 1
                   /\ e.ops[2].op = "Read"
                   /\ e.ops[2].len = RequestedLen(e.register)
                   /\ e.ops[2].len > 0
            /\ e.kind = "write" => Bit7(AddrByte(e)) = 0

C4_Witness ==
    \E v \in Active :
        /\ Succeeded(v) /\ IsMeasureCall
        /\ \E i, j \in DOMAIN drv[v].trace :
               drv[v].trace[i].kind = "read" /\ drv[v].trace[j].kind = "write"

\* C5: in every successful init or init_with_config call the humidity
\* control register (0xF2, on the bus 0x72) is written before the combined
\* control register (0xF4, 0x74), which is written before the config
\* register (0xF5, 0x75), and all three writes come after the chip-ID read
\* and the reads of both calibration blocks.
C5_InitWriteOrder ==
    \A v \in Active :
        (Succeeded(v) /\ IsInitCall)
            => LET t == drv[v].trace
                   hum == Positions(t, "write", 114)
                   meas == Positions(t, "write", 116)
                   conf == Positions(t, "write", 117)
                   reads == Positions(t, "read", 208) \cup Positions(t, "read", 136)
                                \cup Positions(t, "read", 225)
               IN  /\ hum # {} /\ meas # {} /\ conf # {}
                   /\ Positions(t, "read", 208) # {}
                   /\ Positions(t, "read", 136) # {}
                   /\ Positions(t, "read", 225) # {}
                   /\ \A i \in hum : \A j \in meas : i < j
                   /\ \A j \in meas : \A k \in conf : j < k
                   /\ \A r \in reads : \A w \in hum \cup meas \cup conf : r < w

C5_Witness ==
    \E v \in Active :
        /\ Succeeded(v) /\ IsInitCall
        /\ Len(drv[v].trace) >= 6

\* the configuration C6 names
PresetConfiguration ==
    [humidity_oversampling |-> "Oversampling1X",
     pressure_oversampling |-> "Oversampling16X",
     temperature_oversampling |-> "Oversampling2X",
     iir_filter |-> "Coefficient16"]

\* the init protocol run again for configuration c against the answers the
\* device gave in trace t, from a freshly started call
StepOfInit(v, d, c, o) ==
    CASE d.pc = "verify_chip_id" -> StepVerifyChipId(v, d, o)
      [] d.pc = "read_pt_calib" -> StepReadPtCalib(v, d, o)
      [] d.pc = "read_h_calib" -> StepReadHCalib(v, d, o)
      [] d.pc = "write_ctrl_hum" -> StepWriteCtrlHum(v, d, c, o)
      [] d.pc = "write_ctrl_meas" -> StepWriteCtrlMeas(v, d, c, o)
      [] d.pc = "write_config" -> StepWriteConfig(v, d, c, o)
      [] OTHER -> d

RECURSIVE ReplayInit(_, _, _, _, _)
ReplayInit(v, d, c, t, i) ==
    IF i > Len(t) \/ d.pc = "idle" THEN d
    ELSE ReplayInit(v, StepOfInit(v, d, c, [err |-> t[i].err, data |-> t[i].data]),
                    c, t, i + 1)

\* C6: init runs the protocol with exactly the configuration {humidity 1x,
\* pressure 16x, temperature 2x, filter 16}: init_with_config handed that
\* preset, against the same device answers, puts the same transactions on
\* the bus, returns the same result and loads the same calibration; and what
\* init writes to the humidity-control, combined-control and config
\* registers is the encoding of that preset: 0x01, 0x54 and 0x10.
C6_InitPreset ==
    call.name = "init"
        => /\ call.config = PresetConfiguration
           /\ PresetConfiguration \in Configurations
           /\ \A v \in Active :
                  LET r == ReplayInit(v, CommonInit(Driver(new(<<>>))),
                                      PresetConfiguration, drv[v].trace, 1)
                  IN  /\ r.trace = drv[v].trace
                      /\ r.pc = drv[v].pc
                      /\ r.result = drv[v].result
                      /\ r.calibRead => r.calibration = drv[v].calibration
           /\ \A v \in Active : \A i \in DOMAIN drv[v].trace :
                  LET e == drv[v].trace[i]
                  IN  e.kind = "write"
                        => e.ops[1].bytes \in {<<114, 1>>, <<116, 84>>, <<117, 16>>}

C6_Witness ==
    \E v \in Active :
        /\ call.name = "init" /\ Succeeded(v)
        /\ Cardinality({i \in DOMAIN drv[v].trace : drv[v].trace[i].kind = "write"}) = 3

C8_NoRetryNoPartialResult ==
    \A v \in Active :
        LET t == drv[v].trace
        IN  /\ \A i \in Failed(t) :
                  /\ i = Len(t)
                  /\ drv[v].pc = "idle"
                  /\ drv[v].result.tag = "Err"
                  /\ drv[v].result.err = [kind |-> "Bus", spi |-> t[i].err]
                  /\ drv[v].result.val = <<>>
            /\ Cardinality({i \in DOMAIN t : IsTransaction(t[i])}) = drv[v].ifaceCalls

C8_Witness ==
    \E v \in Active :
        /\ Returned(v) /\ IsMeasureCall
        /\ Len(drv[v].trace) >= 2
        /\ Failed(drv[v].trace) = {Len(drv[v].trace)}
        /\ drv[v].result.err.kind = "Bus"

\* C9: in a measure* call the raw data block is only read after a write to
\* the control register (0x74 on the bus) whose payload requests forced mode
\* and, after that write, an invocation of the delay primitive; a successful
\* call ends with that read and compensates the bytes it returned.
C9_ForcedDelayRead ==
    \A v \in Active :
        IsMeasureCall
            => LET t == drv[v].trace
                   dataReads == Positions(t, "read", BME280_DATA_ADDR)
               IN  /\ \A k \in dataReads :
                         \E i, j \in DOMAIN t :
                             /\ i < j /\ j < k
                             /\ t[i].kind = "write" /\ t[i].err = 0
                             /\ AddrByte(t[i]) = 116
                             /\ t[i].ops[1].bytes[2] % 4 = 1
                             /\ t[j].kind = "delay"
                   /\ Succeeded(v)
                         => /\ dataReads = {Len(t)}
                            /\ drv[v].raw = ParseRaw(t[Len(t)].data)

C9_Witness ==
    \E v \in Active :
        /\ Succeeded(v) /\ IsMeasureCall
        /\ Positions(drv[v].trace, "read", BME280_DATA_ADDR) # {}

\* what a transaction amounts to on the wire: the bytes clocked out, the
\* number of words clocked and the number of words captured
Max(a, b) == IF a >= b THEN a ELSE b
WireOp(op) ==
    CASE op.op = "Write" -> [out |-> op.bytes, words |-> Len(op.bytes), captured |-> 0]
      [] op.op = "Read" -> [out |-> <<>>, words |-> op.len, captured |-> op.len]
      [] op.op = "Transfer" ->
            [out |-> op.bytes, words |-> Max(op.len, Len(op.bytes)), captured |-> op.len]
Wire(e) ==
    [kind |-> e.kind, ops |-> [i \in DOMAIN e.ops |-> WireOp(e.ops[i])],
     err |-> e.err, data |-> e.data]
WireTrace(t) == [i \in DOMAIN t |-> Wire(t[i])]

\* C10: built side by side, the blocking and the suspension-capable driver
\* put the same bytes and transactions on the bus and return the same
\* results for the same calls and device answers; a blocking write is a
\* plain write of two bytes, a suspension-capable write a transfer of the
\* same two bytes with an empty read buffer.
C10_SyncAsyncEquivalent ==
    Active = Transports
        => /\ WireTrace(drv["sync"].trace) = WireTrace(drv["async"].trace)
           /\ drv["sync"].result = drv["async"].result
           /\ drv["sync"].calibration = drv["async"].calibration
           /\ drv["sync"].pc = drv["async"].pc
           /\ \A i \in DOMAIN drv["sync"].trace :
                  drv["sync"].trace[i].kind = "write"
                    => /\ drv["sync"].trace[i].ops[1].op = "Write"
                       /\ drv["async"].trace[i].ops[1].op = "Transfer"
                       /\ drv["async"].trace[i].ops[1].len = 0
                       /\ drv["async"].trace[i].ops[1].bytes
                              = drv["sync"].trace[i].ops[1].bytes

C10_Witness ==
    /\ Active = Transports
    /\ Succeeded("sync") /\ Succeeded("async") /\ IsMeasureCall
    /\ Len(drv["async"].trace) = 4
====
